---- MODULE Spec2Model ----
(***************************************************************************)
(* A model of the extreme reverse proxy (package proxy, cmd/proxy).        *)
(*                                                                         *)
(* Two revisions of proxy.go are in the source tree and both are modelled: *)
(*   "v1"  src/proxy/proxy.go                                              *)
(*   "v2"  src/Makefile, lines 18-244 (the later proxy.go: pre-warming,    *)
(*         backendURLs, closing of idle connections on shutdown)           *)
(* The variable build says which one a behaviour runs.                     *)
(*                                                                         *)
(* fasthttp (Server, HostClient, RequestCtx) is a dependency, not code of  *)
(* this repository; what the model needs of it is written next to the call *)
(* that uses it.                                                           *)
(***************************************************************************)
EXTENDS Integers, Sequences, FiniteSets, TLC

(***************************************************************************)
(* Bounds of the model                                                     *)
(***************************************************************************)
\* longest configured backend list
MaxBackends == 3
\* requests accepted in one behaviour
MaxRequests == 5
\* request handlers running at the same time
MaxInFlight == 2
\* SpecLongRun starts at most this many calls before the cursor wraps
WrapWindow == 3
\* SpecLongRun starts after at most this many complete wraps of the cursor
MaxWraps == 1
\* largest pre_warm.requests_per_backend of a configuration
MaxProbes == 2

(***************************************************************************)
(* uint32 arithmetic.  currentBackend is a uint32; 2^32 is beyond          *)
(* the integers TLC computes with, so a value is kept as two 16-bit        *)
(* halves, value = hi * Half + lo.                                         *)
(***************************************************************************)
Half == 65536

U32(h, l) == [hi |-> h, lo |-> l]

Zero32 == U32(0, 0)

\* the value d below 2^32, for 1 <= d <= Half
Below32(d) == U32(Half - 1, Half - d)

\* a load where the add should be: the cursor stays
LoadUint32(c, d) == c

\* atomic.AddUint32's arithmetic: the sum wraps to 0 at 2^32
AddUint32(c, d) ==
    IF c.lo + d < Half THEN U32(c.hi, c.lo + d)
    ELSE IF c.hi + 1 < Half THEN U32(c.hi + 1, c.lo + d - Half)
    ELSE U32(0, c.lo + d - Half)

\* next % uint32(n), n >= 1
ModU32(c, n) == (((c.hi % n) * (Half % n)) + (c.lo % n)) % n

(***************************************************************************)
(* Configuration: backend addresses as url.Parse splits them               *)
(***************************************************************************)
Addr(s, h) == [scheme |-> s, host |-> h]

A == Addr("http", "a:8081")

B == Addr("http", "b:8082")

C == Addr("https", "c:8443")

D == Addr("https", "d:8444")

\* the addresses a configuration lists, in the order it lists them
AddrPool == <<A, B, C, D>>

\* u.Host of url.Parse(backend)
Host(backend) == backend.host

\* The configurations: the first n addresses of the pool, for every n (none
\* included: New accepts an empty list), and a list that names one address twice.
BackendLists == {SubSeq(AddrPool, 1, n) : n \in 0..MaxBackends} \cup {<<A, A>>}

Builds == {"v1", "v2"}

\* an address of a scheme New does not support
X == Addr("unix", "/tmp/backend.sock")

\* a host url.Parse rejects: "http://[::1" (missing ']' in host)
Y == Addr("http", "[::1")

\* strings.HasPrefix(backend, "http://") || strings.HasPrefix(backend, "https://")
SupportedScheme(backend) == backend.scheme \in {"http", "https"}

\* url.Parse(backend) returns no error
Parses(backend) == backend.host # "[::1"

\* configurations New rejects: a bad address first, and last
BadLists == {<<X, A>>, <<A, X>>, <<A, Y>>}

\* what LoadConfig may hand to New: it validates nothing
ConfigLists == BackendLists \cup BadLists

(***************************************************************************)
(* Responses                                                               *)
(***************************************************************************)
StatusOK == 200

StatusBadGateway == 502

Response(s, h, b) == [status |-> s, headers |-> h, body |-> b]

\* a fasthttp.Response after Reset(): StatusCode() reads 200, no headers, no body
EmptyResponse == Response(StatusOK, {}, "")

\* what a backend may answer (a backend may itself answer 502)
BackendResponses ==
    { Response(StatusOK, {"Set-Cookie: s"}, "payload"),
      Response(StatusBadGateway, {"X-Upstream: u"}, "upstream 502") }

\* what HostClient.Do may have left in resp when it returns an error: nothing
\* (dial failure), or the status line, the headers and a part of the body (reset
\* or timeout while the body is read)
PartialWrites(sent) ==
    { EmptyResponse,
      Response(sent.status, sent.headers, "partial") }

\* RequestCtx.Error(msg, code): Response.Reset(), SetStatusCode, SetContentType, SetBodyString
CtxError(resp, msg, code) == Response(code, {"Content-Type: text/plain; charset=utf-8"}, msg)

\* the body handleRequest writes on a forwarding error
ErrorBody(b) == IF b = "v1" THEN "Proxy error" ELSE "Gateway Error"

(***************************************************************************)
(* State                                                                   *)
(***************************************************************************)
VARIABLES
    build,           \* which revision of proxy.go runs
    backends,        \* Proxy.backends: the configured list, in order
    currentBackend,  \* Proxy.currentBackend, a uint32
    listener,        \* the server's listener: "unbound", "listening", "closed"
    startPc,         \* Proxy.Start: "notCalled", "serving", "returned"
    startErr,        \* what Start returned: "none", "nil", "error"
    shutPc,          \* Proxy.Shutdown: "notCalled", "draining", "closingIdle", "returned"
    shutErr,         \* what Shutdown returns: "none" (not yet known), "nil", "error"
    proc,            \* the process: "up", "exited", "crashed"
    preWarm,         \* cfg.PreWarm: 0 when not enabled, else RequestsPerBackend
    newPc,           \* New: "validate", "probe", "ready" (returned p), "failed" (returned nil, err)
    built,           \* New: iterations of its loop over cfg.Backends completed
    clients,         \* Proxy.clients: address -> the client stored for it; a client is
                     \* named by the iteration of New's loop that created it
    idle,            \* a client stored in Proxy.clients holds an idle pooled connection
    warm,            \* New: the client the running iteration has built holds one
    probes,          \* history: per backend position, pre-warm requests completed
    closedIdle,      \* history: Shutdown has run its CloseIdleConnections loop
    workers,         \* the request handlers running handleRequest
    delivered,       \* the request that completed last, as its caller saw it
    accepted,        \* history: requests accepted so far
    routes,          \* history: the backend positions picked, in order, for as long
                     \* as the requests have come one after the other
    selected,        \* history: per backend position, how often it was picked
    overlap          \* history: two handlers have run at the same time

vars == <<build, backends, currentBackend, listener, startPc, startErr, shutPc,
          shutErr, proc, preWarm, newPc, built, clients, idle, warm, probes, closedIdle,
          workers, delivered, accepted, routes, selected, overlap>>

config == <<build, backends, preWarm>>

construction == <<newPc, built, clients, warm, probes>>

lifecycle == <<listener, startPc, startErr, shutPc, shutErr, proc, closedIdle>>

history == <<accepted, routes, selected, overlap>>

NoAddr == Addr("", "")

NoResponse == Response(0, {}, "")

\* a handler slot with no request
FreeWorker ==
    [pc |-> "free", next |-> Zero32, pos |-> 0, backend |-> NoAddr, host |-> "", late |-> FALSE]

\* no request has completed yet
NoDelivery ==
    [fwd |-> "none", next |-> Zero32, pos |-> 0, backend |-> NoAddr, host |-> "",
     tried |-> <<>>, sent |-> NoResponse, partial |-> NoResponse, resp |-> NoResponse]

Workers == 1..MaxInFlight

InFlight(w) == workers[w].pc \in {"accepted", "added", "picked"}

NumBackends == Len(backends)

\* the map keys of Proxy.clients
ClientKeys == {backends[i] : i \in 1..NumBackends}

(***************************************************************************)
(* New                                                                     *)
(***************************************************************************)
\* 2^32 % n
Wrap32Mod(n) == ((Half % n) * (Half % n)) % n

\* After wraps * 2^32 + cursor calls of getNextBackend on a new proxy with n
\* backends, every position has been picked wraps * (2^32 \div n) + cursor \div n
\* times, and position p this many times more: the cursor took every value of
\* 0 .. 2^32 - 1 once per wrap, and then the values 1 .. cursor.
PickedBefore(wraps, cursor, p, n) ==
    (IF p - 1 < Wrap32Mod(n) THEN wraps ELSE 0)
    + (IF 1 <= p - 1 /\ p - 1 <= ModU32(cursor, n) THEN 1 ELSE 0)

\* the process before main calls New, and the fields New's struct literal
\* leaves at their zero value
Unstarted(wraps, cursor) ==
    /\ build \in Builds
    /\ currentBackend = cursor
    /\ listener = "unbound"
    /\ startPc = "notCalled"
    /\ startErr = "none"
    /\ shutPc = "notCalled"
    /\ shutErr = "none"
    /\ proc = "up"
    /\ idle = FALSE
    /\ warm = FALSE
    /\ probes = [p \in 1..NumBackends |-> 0]
    /\ closedIdle = FALSE
    /\ workers = [w \in Workers |-> FreeWorker]
    /\ delivered = NoDelivery
    /\ accepted = 0
    /\ routes = <<>>
    /\ selected = [p \in 1..NumBackends |-> PickedBefore(wraps, cursor, p, NumBackends)]
    /\ overlap = FALSE

\* main has loaded a configuration and calls New
InitNew ==
    /\ backends \in ConfigLists
    /\ preWarm \in 0..MaxProbes
    /\ newPc = "validate"
    /\ built = 0
    /\ clients = [a \in {} |-> 0]
    /\ Unstarted(0, Zero32)

\* clients[backend] = ... in a loop: the last entry that names an address wins
LastSlot(a) == CHOOSE i \in 1..NumBackends :
                  backends[i] = a /\ \A j \in 1..NumBackends : backends[j] = a => j <= i

\* The state New returns for a list of valid addresses when pre-warming is off
InitAt(wraps, cursor) ==
    /\ backends \in BackendLists
    /\ preWarm = 0
    /\ newPc = "ready"
    /\ built = NumBackends
    /\ clients = [a \in ClientKeys |-> LastSlot(a)]
    /\ Unstarted(wraps, cursor)

\* a Proxy struct literal leaves currentBackend at its zero value
Init == InitAt(0, Zero32)

\* A proxy that has been serving for a long time, one request after the other:
\* the cursor is a few calls before 2^32.  These states are reached from Init by
\* that many calls of handleRequest; TLC cannot walk them.
InitLongRun ==
    \E wraps \in 0..MaxWraps, d \in 1..WrapWindow : InitAt(wraps, Below32(d))

\* a construction that checks nothing
ValidAny(backend) == TRUE

\* the two checks of New's loop body on one address
Valid(backend) == SupportedScheme(backend) /\ Parses(backend)

\* v2 only: if cfg.PreWarm.Enabled, with preWarmCount := cfg.PreWarm.RequestsPerBackend
PreWarms == build = "v2" /\ preWarm > 0

\* New's loop body up to the client literal: the scheme check and url.Parse.  On
\* a bad address New returns nil and an error, and main calls os.Exit(1).
NewCheck ==
    /\ proc = "up"
    /\ newPc = "validate"
    /\ built < NumBackends
    /\ IF Valid(backends[built + 1])
       THEN newPc' = "probe" /\ proc' = proc
       ELSE newPc' = "failed" /\ proc' = "exited"
    /\ UNCHANGED <<config, built, clients, warm, probes, idle, currentBackend,
                   listener, startPc, startErr, shutPc, shutErr, closedIdle,
                   workers, delivered, history>>

\* v2: one of the preWarmCount goroutines: client.Do of a HEAD request on the
\* client just built.  A response leaves its connection in the client's pool;
\* an error is logged and nothing else.
NewProbe ==
    /\ proc = "up"
    /\ newPc = "probe"
    /\ PreWarms
    /\ probes[built + 1] < preWarm
    /\ probes' = [probes EXCEPT ![built + 1] = @ + 1]
    /\ \E ok \in BOOLEAN : warm' = (warm \/ ok)
    /\ UNCHANGED <<config, newPc, built, clients, idle, currentBackend, lifecycle,
                   workers, delivered, history>>

\* Whether a stored client holds an idle connection once clients[backend] has
\* been assigned the new client.  A client the assignment replaces is no client
\* of the proxy any more, and its connections leave the count: all of them when
\* it was the only stored client, else whichever of them were its own.
IdleAfterStore(backend) ==
    IF backend \notin DOMAIN clients THEN {idle \/ warm}
    ELSE IF DOMAIN clients = {backend} THEN {warm}
    ELSE {warm, idle \/ warm}

\* v2: wg.Wait() has returned.  Both: clients[backend] = client, the end of the
\* loop body.
NewAddClient ==
    /\ proc = "up"
    /\ newPc = "probe"
    /\ PreWarms => probes[built + 1] = preWarm
    /\ LET backend == backends[built + 1]
       IN  /\ clients' = [a \in DOMAIN clients \cup {backend} |->
                            IF a = backend THEN built + 1 ELSE clients[a]]
           /\ idle' \in IdleAfterStore(backend)
    /\ warm' = FALSE
    /\ built' = built + 1
    /\ newPc' = "validate"
    /\ UNCHANGED <<config, probes, currentBackend, lifecycle,
                   workers, delivered, history>>

\* the loop is over: New builds the Proxy and its server and returns them
NewReturn ==
    /\ proc = "up"
    /\ newPc = "validate"
    /\ built = NumBackends
    /\ newPc' = "ready"
    /\ UNCHANGED <<config, built, clients, warm, probes, idle, currentBackend,
                   lifecycle, workers, delivered, history>>

(***************************************************************************)
(* handleRequest                                                           *)
(***************************************************************************)
\* the server accepts a connection and calls p.handleRequest on a free handler
Accept(w) ==
    /\ proc = "up"
    /\ startPc = "serving"
    /\ listener = "listening"
    /\ accepted < MaxRequests
    /\ workers[w].pc = "free"
    /\ \A v \in Workers : v < w => workers[v].pc # "free"
    /\ workers' = [workers EXCEPT ![w] =
                     [FreeWorker EXCEPT !.pc = "accepted", !.host = "proxy:8080",
                                        !.late = (shutPc # "notCalled")]]
    /\ accepted' = accepted + 1
    /\ overlap' = (overlap \/ \E v \in Workers : v # w /\ InFlight(v))
    /\ routes' = IF overlap' THEN <<>> ELSE routes
    /\ UNCHANGED <<config, construction, idle, currentBackend, lifecycle,
                   delivered, selected>>

\* a fetch-and-add: the value before the addition
AddReturnsOld(old, new) == old

\* atomic.AddUint32 returns the new value
AddReturns(old, new) == new

\* getNextBackend, first half: next := atomic.AddUint32(&p.currentBackend, 1)
AtomicAdd(w) ==
    /\ proc = "up"
    /\ workers[w].pc = "accepted"
    /\ currentBackend' = AddUint32(currentBackend, 1)
    /\ workers' = [workers EXCEPT ![w].pc = "added",
                                  ![w].next = AddReturns(currentBackend, currentBackend')]
    /\ UNCHANGED <<config, construction, idle, lifecycle, delivered, history>>

\* idx := int(next % uint32(len(p.backends)))
BackendIndex(next) == ModU32(next, NumBackends)

\* getNextBackend, second half, and handleRequest up to client.Do: the index, the
\* backend, its client, req.SetHost.  With no backend the modulo panics (integer
\* divide by zero); fasthttp recovers no panic, the process dies.
Pick(w) ==
    /\ proc = "up"
    /\ workers[w].pc = "added"
    /\ IF NumBackends = 0
       THEN /\ proc' = "crashed"
            /\ UNCHANGED <<workers, routes, selected>>
       ELSE LET pos == BackendIndex(workers[w].next) + 1
                backend == backends[pos]
            IN  /\ workers' = [workers EXCEPT ![w].pc = "picked", ![w].pos = pos,
                                              ![w].backend = backend,
                                              ![w].host = Host(backend)]
                /\ routes' = IF overlap THEN routes ELSE Append(routes, pos)
                /\ selected' = [selected EXCEPT ![pos] = @ + 1]
                /\ proc' = proc
    /\ UNCHANGED <<config, construction, idle, currentBackend, listener, startPc,
                   startErr, shutPc, shutErr, closedIdle, delivered, accepted, overlap>>

\* a health-aware proxy: a backend whose forward failed leaves the rotation
BackendsDropFailed(backend, ok) ==
    IF ok THEN backends ELSE SelectSeq(backends, LAMBDA b : b # backend)

\* p.backends after a forward: handleRequest never writes it
BackendsAfterForward(backend, ok) == backends

\* the turn handed back when the forward failed
CursorRolledBack(ok) ==
    IF ok THEN currentBackend
    ELSE IF currentBackend.lo > 0 THEN U32(currentBackend.hi, currentBackend.lo - 1)
    ELSE currentBackend

\* p.currentBackend after a forward: handleRequest never writes it
CursorAfterForward(ok) == currentBackend

\* a second attempt, on the first backend's client, after an error
AttemptsWithRetry(backend, ok) == IF ok THEN <<backend>> ELSE <<backend, backends[1]>>

\* the clients handleRequest calls Do on: p.clients[backend], once
Attempts(backend, ok) == <<backend>>

\* a relay that marks the response as proxied
RelayWithVia(sent) == Response(sent.status, sent.headers \cup {"Via: proxy"}, sent.body)

\* resp := &ctx.Response: Do reads the backend's response into the response
\* the server then writes to the caller
Relay(sent) == sent

\* v1: ctx.Error("Proxy error", fasthttp.StatusBadGateway)
\* v2: ctx.SetStatusCode(fasthttp.StatusBadGateway); ctx.SetBodyString("Gateway Error")
OnForwardError(b, resp) ==
    IF b = "v1" THEN CtxError(resp, "Proxy error", StatusBadGateway)
    ELSE Response(StatusBadGateway, resp.headers, "Gateway Error")

\* Whether a stored client holds an idle connection after a Do.  A Do that
\* succeeds puts its connection back into its client's pool; one that fails
\* closes the connection it used, which may have been the last pooled one.
IdleAfterDo(ok) == IF ok THEN {TRUE} ELSE {idle, FALSE}

\* client.Do(req, resp) and what follows it.  HostClient.Do resets resp, then
\* either reads the backend's response into it and returns nil, or returns an
\* error with resp in one of PartialWrites.
Forward(w) ==
    /\ proc = "up"
    /\ workers[w].pc = "picked"
    /\ LET me == workers[w]
           done == [NoDelivery EXCEPT !.next = me.next, !.pos = me.pos,
                                      !.backend = me.backend, !.host = me.host]
       IN  \E sent \in BackendResponses :
             \/ /\ delivered' = [done EXCEPT !.fwd = "ok", !.sent = sent,
                                             !.partial = sent, !.resp = Relay(sent),
                                             !.tried = Attempts(me.backend, TRUE)]
                /\ backends' = BackendsAfterForward(me.backend, TRUE)
                /\ currentBackend' = CursorAfterForward(TRUE)
                /\ idle' \in IdleAfterDo(TRUE)
             \/ \E partial \in PartialWrites(sent) :
                /\ delivered' = [done EXCEPT !.fwd = "error", !.partial = partial,
                                             !.resp = OnForwardError(build, partial),
                                             !.tried = Attempts(me.backend, FALSE)]
                /\ backends' = BackendsAfterForward(me.backend, FALSE)
                /\ currentBackend' = CursorAfterForward(FALSE)
                /\ idle' \in IdleAfterDo(FALSE)
    /\ workers' = [workers EXCEPT ![w] = FreeWorker]
    /\ UNCHANGED <<build, preWarm, construction, lifecycle, history>>

(***************************************************************************)
(* Start, Shutdown and main                                                *)
(***************************************************************************)
\* main: go func() { p.Start() }.  ListenAndServe binds the address and enters
\* the accept loop
StartListen ==
    /\ proc = "up"
    /\ newPc = "ready"
    /\ startPc = "notCalled"
    /\ startPc' = "serving"
    /\ listener' = "listening"
    /\ UNCHANGED <<config, construction, idle, currentBackend, startErr, shutPc,
                   shutErr, closedIdle, proc, workers, delivered, history>>

\* ListenAndServe cannot bind: Start returns the error and main calls os.Exit(1)
StartListenError ==
    /\ proc = "up"
    /\ newPc = "ready"
    /\ startPc = "notCalled"
    /\ startPc' = "returned"
    /\ startErr' = "error"
    /\ proc' = "exited"
    /\ UNCHANGED <<config, construction, idle, currentBackend, listener, shutPc,
                   shutErr, closedIdle, workers, delivered, history>>

\* Server.Serve returns nil once its listener is closed: it stops the idle
\* workers and does not wait for the busy ones
ServeReturn ==
    /\ proc = "up"
    /\ startPc = "serving"
    /\ listener = "closed"
    /\ startPc' = "returned"
    /\ startErr' = "nil"
    /\ UNCHANGED <<config, construction, idle, currentBackend, listener, shutPc,
                   shutErr, closedIdle, proc, workers, delivered, history>>

\* where Shutdown goes once p.server.Shutdown() has returned
AfterServerShutdown == IF build = "v1" THEN "returned" ELSE "closingIdle"

\* main: <-sigChan; p.Shutdown().  Server.Shutdown closes the listeners it has;
\* with none registered it returns nil at once and leaves nothing behind
ShutdownCall ==
    /\ proc = "up"
    /\ newPc = "ready"
    /\ shutPc = "notCalled"
    /\ IF listener = "listening"
       THEN listener' = "closed" /\ shutPc' = "draining" /\ shutErr' = shutErr
       ELSE listener' = listener /\ shutPc' = AfterServerShutdown /\ shutErr' = "nil"
    /\ UNCHANGED <<config, construction, idle, currentBackend, startPc, startErr,
                   closedIdle, proc, workers, delivered, history>>

\* Server.Shutdown returns the error of a listener's Close at once: the listener
\* is left as it was and no connection is waited for
ShutdownCloseError ==
    /\ proc = "up"
    /\ newPc = "ready"
    /\ shutPc = "notCalled"
    /\ listener = "listening"
    /\ shutPc' = AfterServerShutdown
    /\ shutErr' = "error"
    /\ UNCHANGED <<config, construction, idle, currentBackend, listener, startPc,
                   startErr, closedIdle, proc, workers, delivered, history>>

\* a shutdown that does not wait
DrainedNoWait == TRUE

\* Server.Shutdown returns when no connection is being served any more
Drained == \A w \in Workers : ~InFlight(w)

\* Server.Shutdown waits until no connection is being served, then returns
ShutdownDrained ==
    /\ proc = "up"
    /\ shutPc = "draining"
    /\ Drained
    /\ shutPc' = AfterServerShutdown
    /\ shutErr' = "nil"
    /\ UNCHANGED <<config, construction, idle, currentBackend, listener, startPc,
                   startErr, closedIdle, proc, workers, delivered, history>>

\* v2: for backend, client := range p.clients { client.CloseIdleConnections() },
\* then return err
CloseIdle ==
    /\ proc = "up"
    /\ shutPc = "closingIdle"
    /\ idle' = FALSE
    /\ closedIdle' = TRUE
    /\ shutPc' = "returned"
    /\ UNCHANGED <<config, construction, currentBackend, listener, startPc, startErr,
                   shutErr, proc, workers, delivered, history>>

\* main returns after Shutdown has returned: the process ends
MainExit ==
    /\ proc = "up"
    /\ shutPc = "returned"
    /\ proc' = "exited"
    /\ UNCHANGED <<config, construction, idle, currentBackend, listener, startPc,
                   startErr, shutPc, shutErr, closedIdle, workers, delivered, history>>

Next ==
    \/ \E w \in Workers : Accept(w)
    \/ \E w \in Workers : AtomicAdd(w)
    \/ \E w \in Workers : Pick(w)
    \/ \E w \in Workers : Forward(w)
    \/ StartListen
    \/ StartListenError
    \/ ServeReturn
    \/ ShutdownCall
    \/ ShutdownDrained
    \/ CloseIdle
    \/ MainExit

\* the process from the call of New on, and a listener whose Close may fail
NextFromNew ==
    \/ NewCheck
    \/ NewProbe
    \/ NewAddClient
    \/ NewReturn
    \/ ShutdownCloseError
    \/ Next

\* a proxy New has returned, pre-warming off, whose listener closes without error
Spec == Init /\ [][Next]_vars

\* the same, late in a long run
SpecLongRun == InitLongRun /\ [][Next]_vars

\* the whole process: New on whatever the configuration file holds, then Start
\* and Shutdown
SpecNew == InitNew /\ [][NextFromNew]_vars

\* New alone, from its call to its return
NextNew ==
    \/ NewCheck
    \/ NewProbe
    \/ NewAddClient
    \/ NewReturn

SpecConstruct == InitNew /\ [][NextNew]_vars

(***************************************************************************)
(* Properties                                                              *)
(***************************************************************************)
Picked(w) == workers[w].pc = "picked"

\* a getNextBackend call has added and not yet returned
CallInProgress == \E w \in Workers : workers[w].pc = "added"

RECURSIVE SumUpTo(_, _)
SumUpTo(f, n) == IF n = 0 THEN 0 ELSE f[n] + SumUpTo(f, n - 1)

\* requests that have done their atomic add
AddsDone == accepted - Cardinality({w \in Workers : workers[w].pc = "accepted"})

\* C1: calls of getNextBackend made one after the other return the backends in
\* configuration order, each call the position after the previous call's (and so
\* every backend once in any N consecutive calls), from every cursor value.
C1_RoundRobinOrder ==
    ~overlap =>
        \A k \in 1..Len(routes) - 1 : routes[k + 1] = (routes[k] % NumBackends) + 1

\* the scenario of C2: a new proxy with backends A, B, C, requests one at a time
ScenarioABC == backends = <<A, B, C>> /\ ~overlap

\* C2 as stated: the five requests go to A, B, C, A, B.
C2_RoutesABCAB ==
    ScenarioABC =>
        \A k \in 1..Len(routes) : k <= 5 => backends[routes[k]] = <<A, B, C, A, B>>[k]

\* C2, amended: on a new proxy with backends A, B, C, five requests made one
\* after the other go to B, C, A, B, C: the cursor is incremented before it is
\* read, so the first request goes to the second backend.
C2_RoutesBCABC ==
    ScenarioABC =>
        \A k \in 1..Len(routes) : k <= 5 => backends[routes[k]] = <<B, C, A, B, C>>[k]

C2_FiveRouted == ScenarioABC /\ Len(routes) = 5 /\ delivered.backend = C

\* C3: whenever the calls made on a proxy since its construction number a
\* multiple of the backend count and all have returned, every backend has been
\* returned equally often, under any interleaving of the callers.
C3_EqualShares ==
    (NumBackends >= 1 /\ ~CallInProgress /\ SumUpTo(selected, NumBackends) % NumBackends = 0)
        => \A p, q \in 1..NumBackends : selected[p] = selected[q]

\* C4: a failed forward is answered with 502 and the fixed error body, and the
\* request has kept its turn: the request after it gets the next cursor value
\* and the backend of that value.
C4_FailedForward502 ==
    delivered.fwd = "error" =>
        /\ delivered.resp.status = StatusBadGateway
        /\ delivered.resp.body = ErrorBody(build)
        /\ ~overlap =>
              \A w \in Workers :
                 /\ workers[w].pc \in {"added", "picked"}
                       => workers[w].next = AddUint32(delivered.next, 1)
                 /\ Picked(w)
                       => workers[w].pos =
                             ModU32(AddUint32(delivered.next, 1), NumBackends) + 1

C4_NextAfterFailure ==
    /\ delivered.fwd = "error"
    /\ ~overlap
    /\ \E w \in Workers : Picked(w) /\ workers[w].pos = (delivered.pos % NumBackends) + 1
                                    /\ workers[w].backend # delivered.backend

\* C5: every request makes one selection (the cursor counts the requests that
\* have selected) and one forward attempt, on the client of the backend it
\* selected, whether that attempt fails or not.
C5_OneSelectionOneAttempt ==
    /\ currentBackend = U32(0, AddsDone)
    /\ delivered.fwd # "none" => delivered.tried = <<backends[delivered.pos]>>

C5_FailedWithAlternative ==
    /\ delivered.fwd = "error"
    /\ NumBackends >= 2
    /\ currentBackend = U32(0, accepted)

C7_RelayUnchanged ==
    /\ delivered.fwd = "ok" => delivered.resp = delivered.sent
    /\ (delivered.fwd # "none" /\ delivered.resp # delivered.sent)
          => (delivered.fwd = "error" /\ delivered.resp.status = StatusBadGateway)

C7_Backend502Relayed ==
    /\ delivered.fwd = "ok"
    /\ delivered.sent.status = StatusBadGateway
    /\ delivered.resp.body = "upstream 502"

\* C8: after a forwarding error the caller sees the 502 and the fixed body and
\* nothing of what the client had written into the response.
C8_PartialDiscarded ==
    delivered.fwd = "error" =>
        /\ delivered.resp.status = StatusBadGateway
        /\ delivered.resp.body = ErrorBody(build)
        /\ delivered.resp.headers \cap delivered.partial.headers = {}

\* C9: once Shutdown has been invoked the proxy is not accepting connections and
\* serves no connection it accepted after that, in whatever order
\* Start and Shutdown run.
C9_NoAcceptAfterShutdown ==
    shutPc # "notCalled" =>
        /\ listener # "listening"
        /\ \A w \in Workers : InFlight(w) => ~workers[w].late

C11_NoIdleAfterShutdown ==
    shutPc = "returned" =>
        /\ DOMAIN clients # {} => closedIdle
        /\ ~idle

\* C12: when Shutdown returns the error of the listener's Close, it has still
\* run its close of idle connections over the clients the proxy has.
C12_CloseIdleDespiteError ==
    (shutPc = "returned" /\ shutErr = "error" /\ DOMAIN clients # {}) => closedIdle

\* C13: with pre-warming enabled and K requests per backend, a proxy that is
\* accepting connections has completed K probes on every backend position, and
\* no probe has made New fail.
C13_ProbesBeforeAccept ==
    preWarm > 0 =>
        /\ listener = "listening" => \A p \in 1..NumBackends : probes[p] = preWarm
        /\ newPc = "failed" => \E i \in 1..NumBackends :
                                  ~(SupportedScheme(backends[i]) /\ Parses(backends[i]))

\* the positions of the list whose address New must reject
BadPositions ==
    {i \in 1..NumBackends : ~SupportedScheme(backends[i]) \/ ~Parses(backends[i])}

\* C14: New never gets past an address that lacks a supported scheme or does
\* not parse, wherever it stands in the list: it returns no proxy for such a
\* list, it has failed once its loop has reached the address, and it fails on
\* nothing else.
C14_BadAddressRejected ==
    /\ \A i \in BadPositions :
          /\ built < i
          /\ newPc # "ready"
          /\ (built = i - 1 /\ newPc # "validate") => newPc = "failed"
    /\ newPc = "failed" => (built + 1) \in BadPositions

C14_FailedOnLastAddress ==
    /\ newPc = "failed"
    /\ built = 1
    /\ NumBackends = 2
    /\ proc = "exited"

\* C15: New returns no proxy for an empty backend list, and no request is
\* handled by a proxy without backends.
C15_EmptyListRejected ==
    NumBackends = 0 =>
        /\ newPc # "ready"
        /\ \A w \in Workers : ~InFlight(w)

\* C16: the proxy New returns has as many clients as the list has entries, and
\* no two positions of the list have the same client.
C16_OneClientPerSlot ==
    newPc = "ready" =>
        /\ Cardinality(DOMAIN clients) = NumBackends
        /\ \A i, j \in 1..NumBackends :
              i # j => clients[backends[i]] # clients[backends[j]]

\* a <= b as 32-bit unsigned values
Leq32(a, b) == a.hi < b.hi \/ (a.hi = b.hi /\ a.lo <= b.lo)

\* C17: no step takes the cursor to a smaller value.
C17_CursorNeverDecreases ==
    [][Leq32(currentBackend, currentBackend')]_vars

\* the handlers that hold a value getNextBackend's add has returned
Holders == {w \in Workers : workers[w].pc \in {"added", "picked"}}

\* C18: under every interleaving of the handlers, the cursor counts the adds
\* made (none is lost), and the values the adds returned are all different:
\* those held by running handlers differ from each other and from the value of
\* the request completed last, and none is beyond the cursor.
C18_EachValueIssuedOnce ==
    /\ currentBackend = U32(0, AddsDone)
    /\ \A v, w \in Holders : v # w => workers[v].next # workers[w].next
    /\ \A w \in Holders :
          /\ workers[w].next.hi = 0
          /\ 1 <= workers[w].next.lo /\ workers[w].next.lo <= AddsDone
          /\ delivered.fwd # "none" => workers[w].next # delivered.next

C18_TwoCallersTwoValues ==
    /\ Cardinality(Holders) = 2
    /\ overlap
    /\ \E v, w \in Holders : workers[v].pc = "added" /\ workers[w].pc = "added"
                               /\ workers[v].next = AddUint32(workers[w].next, 1)

\* C19: when New has returned a configuration error, no pre-warm request has
\* been made and no client holds a connection.
C19_NoProbeBeforeValidation ==
    newPc = "failed" =>
        /\ \A p \in 1..NumBackends : probes[p] = 0
        /\ ~warm
        /\ ~idle

====
